---- MODULE Spec2Model ----
(***************************************************************************)
(* Glauber dynamics of the 2D Ising model: packages/glauber.py.            *)
(*                                                                         *)
(* The state is the Glauber object (dimensions, timesteps, sim_type,       *)
(* tempurature, cells, avg_qauntities), the position of the interpreter in *)
(* start_full_sim / anim_func (pc and the loop variables), the state of    *)
(* numpy's global random generator, and what the collaborators received.   *)
(*                                                                         *)
(* Temperatures are counted in tenths (1.0 is 10, 2.9 is 29).              *)
(* Strings that the code inspects (sim_type) are sequences of characters.  *)
(* A character is its Unicode code point.                                  *)
(***************************************************************************)
EXTENDS Integers, Sequences, FiniteSets, TLC

VARIABLES
    args,            \* the arguments of Glauber(dimensions, timesteps, sim_type, tempurature)
    pc,              \* position of the program
    dimensions,      \* self.dimensions
    timesteps,       \* self.timesteps
    sim_type,        \* self.sim_type
    tempurature,     \* self.tempurature: a scalar, or the schedule after start_sim chose the full run
    cells,           \* self.cells: rows of spins, <<>> before create_cells
    avg_qauntities,  \* self.avg_qauntities
    t_idx,           \* start_full_sim: number of temperatures of the schedule already completed
    i,               \* start_full_sim: sweep index
    j,               \* start_full_sim / anim_func: update attempts of the current sweep already made
    rng,             \* state of np.random
    frames,          \* number of frame advances (anim_func) completed
    runs,            \* number of start_sim calls made on the object
    calls,           \* number of glauber_procedure calls since the current start_sim
    sampled_at,      \* for each record of avg_qauntities, <<t_idx, i>> at the time it was appended
    creations,       \* number of create_cells calls since the construction or the last start of a full run
    written,         \* the calls of write_data made by finished_sim
    run_seeds,       \* the state of np.random at each start_sim of the object
    last             \* the last glauber_procedure call: site, neighbour sites, temp, outcome, lattice before

vars == << args, pc, dimensions, timesteps, sim_type, tempurature, cells,
           avg_qauntities, t_idx, i, j, rng, frames, runs, calls,
           sampled_at, creations, written, run_seeds, last >>

(***************************************************************************)
(* Bounds of the model.                                                    *)
(***************************************************************************)
MaxN == 2          \* largest lattice side explored
MaxRuns == 2       \* start_sim calls on one object
MaxFrames == 3     \* frame advances in visual mode
MaxSeed == 2       \* seeds of the random generator explored

(***************************************************************************)
(* Strings.                                                                *)
(***************************************************************************)
\* Runs lo..hi of code points, taken every step-th, whose lower case is one
\* code point at distance delta: << lo, hi, step, delta >> (Unicode 14.0.0).
LowerRanges ==
    << <<65,90,1,32>>, <<192,214,1,32>>, <<216,222,1,32>>, <<256,302,2,1>>,
       <<306,310,2,1>>, <<313,327,2,1>>, <<330,374,2,1>>, <<376,376,1,-121>>,
       <<377,381,2,1>>, <<385,385,1,210>>, <<386,388,2,1>>, <<390,390,1,206>>,
       <<391,391,1,1>>, <<393,394,1,205>>, <<395,395,1,1>>, <<398,398,1,79>>,
       <<399,399,1,202>>, <<400,400,1,203>>, <<401,401,1,1>>, <<403,403,1,205>>,
       <<404,404,1,207>>, <<406,406,1,211>>, <<407,407,1,209>>, <<408,408,1,1>>,
       <<412,412,1,211>>, <<413,413,1,213>>, <<415,415,1,214>>, <<416,420,2,1>>,
       <<422,422,1,218>>, <<423,423,1,1>>, <<425,425,1,218>>, <<428,428,1,1>>,
       <<430,430,1,218>>, <<431,431,1,1>>, <<433,434,1,217>>, <<435,437,2,1>>,
       <<439,439,1,219>>, <<440,440,1,1>>, <<444,444,1,1>>, <<452,452,1,2>>,
       <<453,453,1,1>>, <<455,455,1,2>>, <<456,456,1,1>>, <<458,458,1,2>>,
       <<459,475,2,1>>, <<478,494,2,1>>, <<497,497,1,2>>, <<498,500,2,1>>,
       <<502,502,1,-97>>, <<503,503,1,-56>>, <<504,542,2,1>>, <<544,544,1,-130>>,
       <<546,562,2,1>>, <<570,570,1,10795>>, <<571,571,1,1>>, <<573,573,1,-163>>,
       <<574,574,1,10792>>, <<577,577,1,1>>, <<579,579,1,-195>>, <<580,580,1,69>>,
       <<581,581,1,71>>, <<582,590,2,1>>, <<880,882,2,1>>, <<886,886,1,1>>,
       <<895,895,1,116>>, <<902,902,1,38>>, <<904,906,1,37>>, <<908,908,1,64>>,
       <<910,911,1,63>>, <<913,929,1,32>>, <<931,939,1,32>>, <<975,975,1,8>>,
       <<984,1006,2,1>>, <<1012,1012,1,-60>>, <<1015,1015,1,1>>, <<1017,1017,1,-7>>,
       <<1018,1018,1,1>>, <<1021,1023,1,-130>>, <<1024,1039,1,80>>, <<1040,1071,1,32>>,
       <<1120,1152,2,1>>, <<1162,1214,2,1>>, <<1216,1216,1,15>>, <<1217,1229,2,1>>,
       <<1232,1326,2,1>>, <<1329,1366,1,48>>, <<4256,4293,1,7264>>, <<4295,4295,1,7264>>,
       <<4301,4301,1,7264>>, <<5024,5103,1,38864>>, <<5104,5109,1,8>>, <<7312,7354,1,-3008>>,
       <<7357,7359,1,-3008>>, <<7680,7828,2,1>>, <<7838,7838,1,-7615>>, <<7840,7934,2,1>>,
       <<7944,7951,1,-8>>, <<7960,7965,1,-8>>, <<7976,7983,1,-8>>, <<7992,7999,1,-8>>,
       <<8008,8013,1,-8>>, <<8025,8031,2,-8>>, <<8040,8047,1,-8>>, <<8072,8079,1,-8>>,
       <<8088,8095,1,-8>>, <<8104,8111,1,-8>>, <<8120,8121,1,-8>>, <<8122,8123,1,-74>>,
       <<8124,8124,1,-9>>, <<8136,8139,1,-86>>, <<8140,8140,1,-9>>, <<8152,8153,1,-8>>,
       <<8154,8155,1,-100>>, <<8168,8169,1,-8>>, <<8170,8171,1,-112>>, <<8172,8172,1,-7>>,
       <<8184,8185,1,-128>>, <<8186,8187,1,-126>>, <<8188,8188,1,-9>>, <<8486,8486,1,-7517>>,
       <<8490,8490,1,-8383>>, <<8491,8491,1,-8262>>, <<8498,8498,1,28>>, <<8544,8559,1,16>>,
       <<8579,8579,1,1>>, <<9398,9423,1,26>>, <<11264,11311,1,48>>, <<11360,11360,1,1>>,
       <<11362,11362,1,-10743>>, <<11363,11363,1,-3814>>, <<11364,11364,1,-10727>>, <<11367,11371,2,1>>,
       <<11373,11373,1,-10780>>, <<11374,11374,1,-10749>>, <<11375,11375,1,-10783>>, <<11376,11376,1,-10782>>,
       <<11378,11378,1,1>>, <<11381,11381,1,1>>, <<11390,11391,1,-10815>>, <<11392,11490,2,1>>,
       <<11499,11501,2,1>>, <<11506,11506,1,1>>, <<42560,42604,2,1>>, <<42624,42650,2,1>>,
       <<42786,42798,2,1>>, <<42802,42862,2,1>>, <<42873,42875,2,1>>, <<42877,42877,1,-35332>>,
       <<42878,42886,2,1>>, <<42891,42891,1,1>>, <<42893,42893,1,-42280>>, <<42896,42898,2,1>>,
       <<42902,42920,2,1>>, <<42922,42922,1,-42308>>, <<42923,42923,1,-42319>>, <<42924,42924,1,-42315>>,
       <<42925,42925,1,-42305>>, <<42926,42926,1,-42308>>, <<42928,42928,1,-42258>>, <<42929,42929,1,-42282>>,
       <<42930,42930,1,-42261>>, <<42931,42931,1,928>>, <<42932,42946,2,1>>, <<42948,42948,1,-48>>,
       <<42949,42949,1,-42307>>, <<42950,42950,1,-35384>>, <<42951,42953,2,1>>, <<42960,42960,1,1>>,
       <<42966,42968,2,1>>, <<42997,42997,1,1>>, <<65313,65338,1,32>>, <<66560,66599,1,40>>,
       <<66736,66771,1,40>>, <<66928,66964,2,39>>, <<66929,66938,1,39>>, <<66941,66954,1,39>>,
       <<66957,66962,1,39>>, <<66965,66965,1,39>>, <<68736,68786,1,64>>, <<71840,71871,1,32>>,
       <<93760,93791,1,32>>, <<125184,125217,1,34>> >>

\* Runs lo..hi of code points with the property Cased
CasedRanges ==
    << <<65,90>>, <<97,122>>, <<170,170>>, <<181,181>>, <<186,186>>, <<192,214>>,
       <<216,246>>, <<248,442>>, <<444,447>>, <<452,659>>, <<661,696>>, <<704,705>>,
       <<736,740>>, <<837,837>>, <<880,883>>, <<886,887>>, <<890,893>>, <<895,895>>,
       <<902,902>>, <<904,906>>, <<908,908>>, <<910,929>>, <<931,1013>>, <<1015,1153>>,
       <<1162,1327>>, <<1329,1366>>, <<1376,1416>>, <<4256,4293>>, <<4295,4295>>, <<4301,4301>>,
       <<4304,4346>>, <<4349,4351>>, <<5024,5109>>, <<5112,5117>>, <<7296,7304>>, <<7312,7354>>,
       <<7357,7359>>, <<7424,7615>>, <<7680,7957>>, <<7960,7965>>, <<7968,8005>>, <<8008,8013>>,
       <<8016,8023>>, <<8025,8025>>, <<8027,8027>>, <<8029,8029>>, <<8031,8061>>, <<8064,8116>>,
       <<8118,8124>>, <<8126,8126>>, <<8130,8132>>, <<8134,8140>>, <<8144,8147>>, <<8150,8155>>,
       <<8160,8172>>, <<8178,8180>>, <<8182,8188>>, <<8305,8305>>, <<8319,8319>>, <<8336,8348>>,
       <<8450,8450>>, <<8455,8455>>, <<8458,8467>>, <<8469,8469>>, <<8473,8477>>, <<8484,8484>>,
       <<8486,8486>>, <<8488,8488>>, <<8490,8493>>, <<8495,8500>>, <<8505,8505>>, <<8508,8511>>,
       <<8517,8521>>, <<8526,8526>>, <<8544,8575>>, <<8579,8580>>, <<9398,9449>>, <<11264,11492>>,
       <<11499,11502>>, <<11506,11507>>, <<11520,11557>>, <<11559,11559>>, <<11565,11565>>, <<42560,42605>>,
       <<42624,42653>>, <<42786,42887>>, <<42891,42894>>, <<42896,42954>>, <<42960,42961>>, <<42963,42963>>,
       <<42965,42969>>, <<42997,42998>>, <<43000,43002>>, <<43824,43866>>, <<43868,43880>>, <<43888,43967>>,
       <<64256,64262>>, <<64275,64279>>, <<65313,65338>>, <<65345,65370>>, <<66560,66639>>, <<66736,66771>>,
       <<66776,66811>>, <<66928,66938>>, <<66940,66954>>, <<66956,66962>>, <<66964,66965>>, <<66967,66977>>,
       <<66979,66993>>, <<66995,67001>>, <<67003,67004>>, <<67456,67456>>, <<67459,67461>>, <<67463,67504>>,
       <<67506,67514>>, <<68736,68786>>, <<68800,68850>>, <<71840,71903>>, <<93760,93823>>, <<119808,119892>>,
       <<119894,119964>>, <<119966,119967>>, <<119970,119970>>, <<119973,119974>>, <<119977,119980>>, <<119982,119993>>,
       <<119995,119995>>, <<119997,120003>>, <<120005,120069>>, <<120071,120074>>, <<120077,120084>>, <<120086,120092>>,
       <<120094,120121>>, <<120123,120126>>, <<120128,120132>>, <<120134,120134>>, <<120138,120144>>, <<120146,120485>>,
       <<120488,120512>>, <<120514,120538>>, <<120540,120570>>, <<120572,120596>>, <<120598,120628>>, <<120630,120654>>,
       <<120656,120686>>, <<120688,120712>>, <<120714,120744>>, <<120746,120770>>, <<120772,120779>>, <<122624,122633>>,
       <<122635,122654>>, <<125184,125251>>, <<127280,127305>>, <<127312,127337>>, <<127344,127369>> >>

\* Runs lo..hi of code points with the property Case_Ignorable
CaseIgnorableRanges ==
    << <<39,39>>, <<46,46>>, <<58,58>>, <<94,94>>, <<96,96>>, <<168,168>>,
       <<173,173>>, <<175,175>>, <<180,180>>, <<183,184>>, <<688,879>>, <<884,885>>,
       <<890,890>>, <<900,901>>, <<903,903>>, <<1155,1161>>, <<1369,1369>>, <<1375,1375>>,
       <<1425,1469>>, <<1471,1471>>, <<1473,1474>>, <<1476,1477>>, <<1479,1479>>, <<1524,1524>>,
       <<1536,1541>>, <<1552,1562>>, <<1564,1564>>, <<1600,1600>>, <<1611,1631>>, <<1648,1648>>,
       <<1750,1757>>, <<1759,1768>>, <<1770,1773>>, <<1807,1807>>, <<1809,1809>>, <<1840,1866>>,
       <<1958,1968>>, <<2027,2037>>, <<2042,2042>>, <<2045,2045>>, <<2070,2093>>, <<2137,2139>>,
       <<2184,2184>>, <<2192,2193>>, <<2200,2207>>, <<2249,2306>>, <<2362,2362>>, <<2364,2364>>,
       <<2369,2376>>, <<2381,2381>>, <<2385,2391>>, <<2402,2403>>, <<2417,2417>>, <<2433,2433>>,
       <<2492,2492>>, <<2497,2500>>, <<2509,2509>>, <<2530,2531>>, <<2558,2558>>, <<2561,2562>>,
       <<2620,2620>>, <<2625,2626>>, <<2631,2632>>, <<2635,2637>>, <<2641,2641>>, <<2672,2673>>,
       <<2677,2677>>, <<2689,2690>>, <<2748,2748>>, <<2753,2757>>, <<2759,2760>>, <<2765,2765>>,
       <<2786,2787>>, <<2810,2815>>, <<2817,2817>>, <<2876,2876>>, <<2879,2879>>, <<2881,2884>>,
       <<2893,2893>>, <<2901,2902>>, <<2914,2915>>, <<2946,2946>>, <<3008,3008>>, <<3021,3021>>,
       <<3072,3072>>, <<3076,3076>>, <<3132,3132>>, <<3134,3136>>, <<3142,3144>>, <<3146,3149>>,
       <<3157,3158>>, <<3170,3171>>, <<3201,3201>>, <<3260,3260>>, <<3263,3263>>, <<3270,3270>>,
       <<3276,3277>>, <<3298,3299>>, <<3328,3329>>, <<3387,3388>>, <<3393,3396>>, <<3405,3405>>,
       <<3426,3427>>, <<3457,3457>>, <<3530,3530>>, <<3538,3540>>, <<3542,3542>>, <<3633,3633>>,
       <<3636,3642>>, <<3654,3662>>, <<3761,3761>>, <<3764,3772>>, <<3782,3782>>, <<3784,3789>>,
       <<3864,3865>>, <<3893,3893>>, <<3895,3895>>, <<3897,3897>>, <<3953,3966>>, <<3968,3972>>,
       <<3974,3975>>, <<3981,3991>>, <<3993,4028>>, <<4038,4038>>, <<4141,4144>>, <<4146,4151>>,
       <<4153,4154>>, <<4157,4158>>, <<4184,4185>>, <<4190,4192>>, <<4209,4212>>, <<4226,4226>>,
       <<4229,4230>>, <<4237,4237>>, <<4253,4253>>, <<4348,4348>>, <<4957,4959>>, <<5906,5908>>,
       <<5938,5939>>, <<5970,5971>>, <<6002,6003>>, <<6068,6069>>, <<6071,6077>>, <<6086,6086>>,
       <<6089,6099>>, <<6103,6103>>, <<6109,6109>>, <<6155,6159>>, <<6211,6211>>, <<6277,6278>>,
       <<6313,6313>>, <<6432,6434>>, <<6439,6440>>, <<6450,6450>>, <<6457,6459>>, <<6679,6680>>,
       <<6683,6683>>, <<6742,6742>>, <<6744,6750>>, <<6752,6752>>, <<6754,6754>>, <<6757,6764>>,
       <<6771,6780>>, <<6783,6783>>, <<6823,6823>>, <<6832,6862>>, <<6912,6915>>, <<6964,6964>>,
       <<6966,6970>>, <<6972,6972>>, <<6978,6978>>, <<7019,7027>>, <<7040,7041>>, <<7074,7077>>,
       <<7080,7081>>, <<7083,7085>>, <<7142,7142>>, <<7144,7145>>, <<7149,7149>>, <<7151,7153>>,
       <<7212,7219>>, <<7222,7223>>, <<7288,7293>>, <<7376,7378>>, <<7380,7392>>, <<7394,7400>>,
       <<7405,7405>>, <<7412,7412>>, <<7416,7417>>, <<7468,7530>>, <<7544,7544>>, <<7579,7679>>,
       <<8125,8125>>, <<8127,8129>>, <<8141,8143>>, <<8157,8159>>, <<8173,8175>>, <<8189,8190>>,
       <<8203,8207>>, <<8216,8217>>, <<8228,8228>>, <<8231,8231>>, <<8234,8238>>, <<8288,8292>>,
       <<8294,8303>>, <<8305,8305>>, <<8319,8319>>, <<8336,8348>>, <<8400,8432>>, <<11388,11389>>,
       <<11503,11505>>, <<11631,11631>>, <<11647,11647>>, <<11744,11775>>, <<11823,11823>>, <<12293,12293>>,
       <<12330,12333>>, <<12337,12341>>, <<12347,12347>>, <<12441,12446>>, <<12540,12542>>, <<40981,40981>>,
       <<42232,42237>>, <<42508,42508>>, <<42607,42610>>, <<42612,42621>>, <<42623,42623>>, <<42652,42655>>,
       <<42736,42737>>, <<42752,42785>>, <<42864,42864>>, <<42888,42890>>, <<42994,42996>>, <<43000,43001>>,
       <<43010,43010>>, <<43014,43014>>, <<43019,43019>>, <<43045,43046>>, <<43052,43052>>, <<43204,43205>>,
       <<43232,43249>>, <<43263,43263>>, <<43302,43309>>, <<43335,43345>>, <<43392,43394>>, <<43443,43443>>,
       <<43446,43449>>, <<43452,43453>>, <<43471,43471>>, <<43493,43494>>, <<43561,43566>>, <<43569,43570>>,
       <<43573,43574>>, <<43587,43587>>, <<43596,43596>>, <<43632,43632>>, <<43644,43644>>, <<43696,43696>>,
       <<43698,43700>>, <<43703,43704>>, <<43710,43711>>, <<43713,43713>>, <<43741,43741>>, <<43756,43757>>,
       <<43763,43764>>, <<43766,43766>>, <<43867,43871>>, <<43881,43883>>, <<44005,44005>>, <<44008,44008>>,
       <<44013,44013>>, <<64286,64286>>, <<64434,64450>>, <<65024,65039>>, <<65043,65043>>, <<65056,65071>>,
       <<65106,65106>>, <<65109,65109>>, <<65279,65279>>, <<65287,65287>>, <<65294,65294>>, <<65306,65306>>,
       <<65342,65342>>, <<65344,65344>>, <<65392,65392>>, <<65438,65439>>, <<65507,65507>>, <<65529,65531>>,
       <<66045,66045>>, <<66272,66272>>, <<66422,66426>>, <<67456,67461>>, <<67463,67504>>, <<67506,67514>>,
       <<68097,68099>>, <<68101,68102>>, <<68108,68111>>, <<68152,68154>>, <<68159,68159>>, <<68325,68326>>,
       <<68900,68903>>, <<69291,69292>>, <<69446,69456>>, <<69506,69509>>, <<69633,69633>>, <<69688,69702>>,
       <<69744,69744>>, <<69747,69748>>, <<69759,69761>>, <<69811,69814>>, <<69817,69818>>, <<69821,69821>>,
       <<69826,69826>>, <<69837,69837>>, <<69888,69890>>, <<69927,69931>>, <<69933,69940>>, <<70003,70003>>,
       <<70016,70017>>, <<70070,70078>>, <<70089,70092>>, <<70095,70095>>, <<70191,70193>>, <<70196,70196>>,
       <<70198,70199>>, <<70206,70206>>, <<70367,70367>>, <<70371,70378>>, <<70400,70401>>, <<70459,70460>>,
       <<70464,70464>>, <<70502,70508>>, <<70512,70516>>, <<70712,70719>>, <<70722,70724>>, <<70726,70726>>,
       <<70750,70750>>, <<70835,70840>>, <<70842,70842>>, <<70847,70848>>, <<70850,70851>>, <<71090,71093>>,
       <<71100,71101>>, <<71103,71104>>, <<71132,71133>>, <<71219,71226>>, <<71229,71229>>, <<71231,71232>>,
       <<71339,71339>>, <<71341,71341>>, <<71344,71349>>, <<71351,71351>>, <<71453,71455>>, <<71458,71461>>,
       <<71463,71467>>, <<71727,71735>>, <<71737,71738>>, <<71995,71996>>, <<71998,71998>>, <<72003,72003>>,
       <<72148,72151>>, <<72154,72155>>, <<72160,72160>>, <<72193,72202>>, <<72243,72248>>, <<72251,72254>>,
       <<72263,72263>>, <<72273,72278>>, <<72281,72283>>, <<72330,72342>>, <<72344,72345>>, <<72752,72758>>,
       <<72760,72765>>, <<72767,72767>>, <<72850,72871>>, <<72874,72880>>, <<72882,72883>>, <<72885,72886>>,
       <<73009,73014>>, <<73018,73018>>, <<73020,73021>>, <<73023,73029>>, <<73031,73031>>, <<73104,73105>>,
       <<73109,73109>>, <<73111,73111>>, <<73459,73460>>, <<78896,78904>>, <<92912,92916>>, <<92976,92982>>,
       <<92992,92995>>, <<94031,94031>>, <<94095,94111>>, <<94176,94177>>, <<94179,94180>>, <<110576,110579>>,
       <<110581,110587>>, <<110589,110590>>, <<113821,113822>>, <<113824,113827>>, <<118528,118573>>, <<118576,118598>>,
       <<119143,119145>>, <<119155,119170>>, <<119173,119179>>, <<119210,119213>>, <<119362,119364>>, <<121344,121398>>,
       <<121403,121452>>, <<121461,121461>>, <<121476,121476>>, <<121499,121503>>, <<121505,121519>>, <<122880,122886>>,
       <<122888,122904>>, <<122907,122913>>, <<122915,122916>>, <<122918,122922>>, <<123184,123197>>, <<123566,123566>>,
       <<123628,123631>>, <<125136,125142>>, <<125252,125259>>, <<127995,127999>>, <<917505,917505>>, <<917536,917631>>,
       <<917760,917999>> >>

PyUnicode_IsCased(ch) ==
    \E k \in DOMAIN CasedRanges : CasedRanges[k][1] <= ch /\ ch <= CasedRanges[k][2]

PyUnicode_IsCaseIgnorable(ch) ==
    \E k \in DOMAIN CaseIgnorableRanges :
        CaseIgnorableRanges[k][1] <= ch /\ ch <= CaseIgnorableRanges[k][2]

\* str.lower() on a one-character string: the characters it becomes.
\* I with dot above (U+0130) becomes i and the combining dot U+0307.
char_lower(ch) ==
    LET hit == {k \in DOMAIN LowerRanges :
                    /\ LowerRanges[k][1] <= ch /\ ch <= LowerRanges[k][2]
                    /\ (ch - LowerRanges[k][1]) % LowerRanges[k][3] = 0}
    IN  IF ch = 304 THEN << 105, 775 >>
        ELSE IF hit = {} THEN << ch >>
        ELSE << ch + LowerRanges[CHOOSE k \in hit : TRUE][4] >>

\* The capital sigma (U+03A3) at position p of s becomes the final sigma
\* U+03C2 when a cased character precedes it and none follows it, case-
\* ignorable characters skipped on both sides; U+03C3 otherwise.
handle_capital_sigma(s, p) ==
    LET before == {q \in 1..(p - 1) : ~ PyUnicode_IsCaseIgnorable(s[q])}
        after == {q \in (p + 1)..Len(s) : ~ PyUnicode_IsCaseIgnorable(s[q])}
        prev == CHOOSE q \in before : \A r \in before : r <= q
        next == CHOOSE q \in after : \A r \in after : q <= r
        final_sigma ==
            /\ before # {} /\ PyUnicode_IsCased(s[prev])
            /\ (after = {} \/ ~ PyUnicode_IsCased(s[next]))
    IN  IF final_sigma THEN 962 ELSE 963

\* the characters that the character at position p of s becomes
lower_ucs4(s, p) ==
    IF s[p] = 931 THEN << handle_capital_sigma(s, p) >> ELSE char_lower(s[p])

RECURSIVE do_lower(_, _)
do_lower(s, p) ==
    IF p > Len(s) THEN << >> ELSE lower_ucs4(s, p) \o do_lower(s, p + 1)

\* str.lower()
str_lower(s) == do_lower(s, 1)

\* "visual"
STR_visual == << 118, 105, 115, 117, 97, 108 >>

(***************************************************************************)
(* numpy.                                                                  *)
(***************************************************************************)
\* np.arange(start, stop, step) for a positive step, in tenths:
\* ceil((stop - start) / step) values start, start + step, ...
np_arange(start, stop, step) ==
    LET n == IF stop > start THEN (stop - start + step - 1) \div step ELSE 0
    IN  [k \in 1..n |-> start + (k - 1) * step]

\* The global generator np.random is a deterministic function of its state;
\* it is modelled by a multiplicative congruential generator of period 46.
np_random_next(s) == (5 * s) % 47

\* the states of the generator after 1, 2, ... n draws from state s
RECURSIVE np_random_stream(_, _)
np_random_stream(s, n) ==
    IF n = 0 THEN << >>
    ELSE << np_random_next(s) >> \o np_random_stream(np_random_next(s), n - 1)

\* a value of low..high, the upper bound included
np_random_randint_inclusive(low, high, draw) == low + (draw % (high - low + 1))

\* np.random.randint(low, high): a value of low..high-1 from one draw
np_random_randint(low, high, draw) == low + (draw % (high - low))

\* np.random.choice(a): an element of the sequence a from one draw
np_random_choice(a, draw) == a[(draw % Len(a)) + 1]

(***************************************************************************)
(* The lattice and the collaborators of packages.controller and            *)
(* tools.utils.sim_utils.                                                  *)
(***************************************************************************)
NoCells == << >>

Spins_with_zero == << 1, 0 >>

Spins == << 1, -1 >>

\* self.cells[row, col]
cell(c, row, col) == c[row + 1][col + 1]

\* a constructor that accepts every size
SimulationPlane_init_unchecked(d, t) == "ok"

\* SimulationPlane.__init__(dimensions, timesteps): non-positive sizes are
\* rejected at construction
SimulationPlane_init(d, t) ==
    IF d <= 0 \/ t <= 0 THEN "InvalidParameter" ELSE "ok"

\* a check_sim that ends the simulation as a full run ends: finished_sim
SimulationPlane_check_sim_finishes(q, w, N, T) ==
    [avg_qauntities |-> q,
     written |-> Append(w, [data |-> q,
                            file_parameters |-> << "Glauber", N, T >>,
                            sim_info |-> << N * N, T >>])]

\* SimulationPlane.check_sim(): bookkeeping of the rendering loop after a
\* frame; a frame advance only hands the lattice to the renderer, so the
\* accumulator q and the written data w are returned as they are
SimulationPlane_check_sim(q, w, N, T) == [avg_qauntities |-> q, written |-> w]

\* a wrap of the lower edge only
wrap_upper_missing(k, N) == IF k < 0 THEN k + N ELSE k

\* SimulationPlane.check_nieghbours(coordinate): the member and its four
\* nearest neighbours with periodic wrap
wrap(k, N) == k % N

neighbour_sites(row, col, N) ==
    << << wrap(row - 1, N), col >>, << wrap(row + 1, N), col >>,
       << row, wrap(col - 1, N) >>, << row, wrap(col + 1, N) >> >>

\* the indices that self.cells[row, col] accepts; the indices of the model
\* are never negative
in_lattice(row, col, N) == row \in 0..(N - 1) /\ col \in 0..(N - 1)

\* the lookup reads the member and the four sites; a read outside the
\* lattice raises IndexError
SimulationPlane_check_nieghbours(c, N, row, col) ==
    LET ns == neighbour_sites(row, col, N)
    IN  IF in_lattice(row, col, N) /\ \A k \in 1..4 : in_lattice(ns[k][1], ns[k][2], N)
        THEN [raised |-> FALSE, sites |-> ns,
              member |-> cell(c, row, col),
              nieghbours |-> [k \in 1..4 |-> cell(c, ns[k][1], ns[k][2])]]
        ELSE [raised |-> TRUE, sites |-> ns,
              member |-> 0, nieghbours |-> << 0, 0, 0, 0 >>]

\* sim_utils.determine_energy_change(member, nieghbours) = 2 J s (sum of neighbours), J = 1
determine_energy_change(member, nieghbours) ==
    2 * member * (nieghbours[1] + nieghbours[2] + nieghbours[3] + nieghbours[4])

\* sim_utils.determine_flip_state(energy_change, temp): accept iff u < p with
\* p = 1 / (1 + exp(energy_change / temp)).  The uniform draw u takes one of
\* three values: 0, 1/2 and the largest value below 1.  For the temperatures
\* of the class (1 to 5) and |energy_change| <= 8, p lies strictly between
\* 0 and 1, and p > 1/2 iff energy_change / temp < 0.
determine_flip_state(energy_change, temp, draw) ==
    LET u == draw % 3
    IN  CASE u = 0 -> TRUE
          [] u = 1 -> energy_change * temp < 0
          [] OTHER -> FALSE

\* sim_utils.flip_array_state(state)
flip_array_state(state) == -state

RECURSIVE SumTo(_, _)
SumTo(f, n) == IF n = 0 THEN 0 ELSE f[n] + SumTo(f, n - 1)

\* the sites of the lattice in row-major order
site_of(k, N) == << (k - 1) \div N, (k - 1) % N >>

\* sim_utils.calculate_total_mag(cells): sum of the spins
calculate_total_mag(c, N) ==
    SumTo([k \in 1..(N * N) |-> cell(c, site_of(k, N)[1], site_of(k, N)[2])], N * N)

\* sim_utils.calculate_total_energy(cells): -J/2 sum_i s_i local_field(i), J = 1
calculate_total_energy(c, N) ==
    LET term(k) ==
            LET m == SimulationPlane_check_nieghbours(c, N, site_of(k, N)[1], site_of(k, N)[2])
            IN  m.member * (m.nieghbours[1] + m.nieghbours[2] + m.nieghbours[3] + m.nieghbours[4])
    IN  0 - (SumTo([k \in 1..(N * N) |-> term(k)], N * N) \div 2)

(***************************************************************************)
(* Glauber: the methods as functions of the state they read.               *)
(***************************************************************************)
\* a lattice that is created only when the object has none yet
create_cells_lazy(N, s) ==
    IF cells # NoCells
    THEN [cells |-> cells, rng |-> s]
    ELSE LET st == np_random_stream(s, N * N)
         IN  [cells |-> [r \in 1..N |-> [c \in 1..N |->
                             np_random_choice(Spins, st[(r - 1) * N + c])]],
              rng |-> IF N * N = 0 THEN s ELSE st[N * N]]

\* create_cells: np.random.choice([1, -1], size=(N, N)) from state s of the generator
create_cells(N, s) ==
    LET st == np_random_stream(s, N * N)
    IN  [cells |-> [r \in 1..N |-> [c \in 1..N |->
                        np_random_choice(Spins, st[(r - 1) * N + c])]],
         rng |-> IF N * N = 0 THEN s ELSE st[N * N]]

\* check_nieghbours(coordinate)
check_nieghbours(c, N, row, col) ==
    CHOOSE r \in { [raised |-> m.raised, sites |-> m.sites,
                    energy_change |-> determine_energy_change(m.member, m.nieghbours)] :
                        m \in {SimulationPlane_check_nieghbours(c, N, row, col)} } : TRUE

\* an update that writes the negated spin whatever the outcome
glauber_procedure_unconditional(c, N, temp, s) ==
    LET st == np_random_stream(s, 3)
        random_row == np_random_randint(0, N, st[1])
        random_col == np_random_randint(0, N, st[2])
        after(lookup) ==
            LET energy_change == lookup.energy_change
                outcome == determine_flip_state(energy_change, temp, st[3])
                newState == flip_array_state(cell(c, random_row, random_col))
            IN  IF ~ lookup.raised
                THEN [row |-> random_row, col |-> random_col, raised |-> FALSE,
                      sites |-> lookup.sites, outcome |-> outcome,
                      cells |-> [c EXCEPT ![random_row + 1][random_col + 1] = newState],
                      rng |-> st[3]]
                ELSE [row |-> random_row, col |-> random_col, raised |-> TRUE,
                      sites |-> lookup.sites, outcome |-> FALSE, cells |-> c,
                      rng |-> st[2]]
    IN  CHOOSE r \in { after(lookup) :
                        lookup \in {check_nieghbours(c, N, random_row, random_col)} } : TRUE

\* glauber_procedure(temp) on lattice c from state s of the generator;
\* a read outside the lattice raises IndexError in check_nieghbours
glauber_procedure(c, N, temp, s) ==
    LET st == np_random_stream(s, 3)
        random_row == np_random_randint(0, N, st[1])
        random_col == np_random_randint(0, N, st[2])
        after(lookup) ==
            LET energy_change == lookup.energy_change
                outcome == determine_flip_state(energy_change, temp, st[3])
                newState == flip_array_state(cell(c, random_row, random_col))
            IN  IF ~ lookup.raised
                THEN [row |-> random_row, col |-> random_col, raised |-> FALSE,
                      sites |-> lookup.sites, outcome |-> outcome,
                      cells |-> IF outcome
                                THEN [c EXCEPT ![random_row + 1][random_col + 1] = newState]
                                ELSE c,
                      rng |-> st[3]]
                ELSE [row |-> random_row, col |-> random_col, raised |-> TRUE,
                      sites |-> lookup.sites, outcome |-> FALSE, cells |-> c,
                      rng |-> st[2]]
    IN  CHOOSE r \in { after(lookup) :
                        lookup \in {check_nieghbours(c, N, random_row, random_col)} } : TRUE

\* what is remembered of one glauber_procedure call
attempt_record(g, c, N, temp) ==
    [row |-> g.row, col |-> g.col, outcome |-> g.outcome, temp |-> temp,
     before |-> c,
     sites |-> g.sites]

NoAttempt ==
    [row |-> 0, col |-> 0, outcome |-> FALSE, temp |-> 0, before |-> NoCells,
     sites |-> << >>]

\* the record appended by calculate_averages(tempurature)
calculate_averages(c, N, temp) ==
    << temp, calculate_total_energy(c, N), calculate_total_mag(c, N) >>

\* variants of the condition of line 67
sample_due_every10(k) == k % 10 = 0

sample_due_at9(k) == k >= 99 /\ k % 10 = 9

\* the condition of line 67
sample_due(k) == k >= 99 /\ k % 10 = 0

\* a schedule that includes the stop value
full_schedule_inclusive == np_arange(10, 31, 1)

\* the schedule assigned by start_sim
full_schedule == np_arange(10, 30, 1)

\* a test of the mode that is sensitive to case
is_visual_exact(st) == st = STR_visual

\* start_sim's test of the mode
is_visual(st) == str_lower(st) = STR_visual

\* the first temperature of the schedule instead of the object's own
anim_temp_schedule == full_schedule[1]

\* anim_func's argument of glauber_procedure: self.tempurature
anim_temp == tempurature

\* a sweep of N attempts instead of N * N
sweep_attempts_linear(N) == N

\* range(self.dimensions ** 2): the update attempts of one sweep
sweep_attempts(N) == N * N

\* insertion at the front instead of the end
list_prepend(q, record) == << record >> \o q

\* self.avg_qauntities.append(record)
list_append(q, record) == Append(q, record)

\* a constructor that does not reach the validation of the base class
(***************************************************************************)
(* Initial states: the arguments of the constructor and the seed.          *)
(***************************************************************************)
\* "full"
STR_full == << 102, 117, 108, 108 >>

\* "visual", "Visual", "VISUAL", "visual ", "full", "FULL", "bogus",
\* "V\u0130SUAL" (I with dot above), "A\u00c0\u03a3" (A grave, final sigma), ""
SimTypes ==
    { STR_visual,
      << 86, 105, 115, 117, 97, 108 >>,
      << 86, 73, 83, 85, 65, 76 >>,
      << 118, 105, 115, 117, 97, 108, 32 >>,
      STR_full,
      << 70, 85, 76, 76 >>,
      << 98, 111, 103, 117, 115 >>,
      << 86, 304, 83, 85, 65, 76 >>,
      << 65, 192, 931 >>,
      << >> }

\* short runs with every kind of argument
ArgsSmall ==
    [dimensions : -1..MaxN, timesteps : {-1, 0, 1, 2},
     sim_type : SimTypes, tempurature : {10, 45}]

\* one run long enough to sample
ArgsLong ==
    [dimensions : {1}, timesteps : {101}, sim_type : {STR_full}, tempurature : {45}]

\* runs that end before the first sample
ArgsShort ==
    [dimensions : 1..MaxN, timesteps : {50, 99}, sim_type : {STR_full},
     tempurature : {45}]

\* runs around the sampling threshold
ArgsSchedule ==
    [dimensions : 0..MaxN, timesteps : {0, 99, 100, 101, 110, 111, 150},
     sim_type : {STR_full, STR_visual}, tempurature : {25}]

InitWith(A, R) ==
    /\ args \in A
    /\ rng \in R
    /\ pc = "new"
    /\ dimensions = 0
    /\ timesteps = 0
    /\ sim_type = << >>
    /\ tempurature = 0
    /\ cells = NoCells
    /\ avg_qauntities = << >>
    /\ t_idx = 0
    /\ i = 0
    /\ j = 0
    /\ frames = 0
    /\ runs = 0
    /\ calls = 0
    /\ sampled_at = << >>
    /\ creations = 0
    /\ written = << >>
    /\ run_seeds = << >>
    /\ last = NoAttempt

Init ==
    \/ InitWith(ArgsSmall, 1..MaxSeed)
    \/ InitWith(ArgsShort, {1})
    \/ InitWith(ArgsLong, {1})

InitSchedule == InitWith(ArgsSchedule, {1})

\* short runs of both modes, for the properties of whole behaviours
ArgsFair ==
    [dimensions : 0..MaxN, timesteps : {1, 2},
     sim_type : {STR_full, STR_visual},
     tempurature : {45}]

InitFair == InitWith(ArgsFair, {1}) \/ InitWith(ArgsLong, {1})

(***************************************************************************)
(* Actions.                                                                *)
(***************************************************************************)
\* super().__init__(dimensions, timesteps) of line 24 returns: the base
\* class has stored the two sizes
SimulationPlane_init_returns ==
    /\ pc = "new"
    /\ SimulationPlane_init(args.dimensions, args.timesteps) = "ok"
    /\ dimensions' = args.dimensions
    /\ timesteps' = args.timesteps
    /\ pc' = "init"
    /\ UNCHANGED << args, sim_type, tempurature, cells, avg_qauntities, t_idx, i,
                    j, rng, frames, runs, calls, sampled_at, creations, written,
                    run_seeds, last >>

\* super().__init__(dimensions, timesteps) of line 24 raises: nothing of
\* __init__ after it is executed
SimulationPlane_init_raises ==
    /\ pc = "new"
    /\ SimulationPlane_init(args.dimensions, args.timesteps) # "ok"
    /\ pc' = SimulationPlane_init(args.dimensions, args.timesteps)
    /\ UNCHANGED << args, dimensions, timesteps, sim_type, tempurature, cells,
                    avg_qauntities, t_idx, i, j, rng, frames, runs, calls,
                    sampled_at, creations, written, run_seeds, last >>

\* Glauber.__init__ after super().__init__: lines 25-26
Glauber_init ==
    /\ pc = "init"
    /\ tempurature' = args.tempurature
    /\ sim_type' = args.sim_type
    /\ pc' = "constructed"
    /\ UNCHANGED << args, dimensions, timesteps, cells, avg_qauntities, t_idx, i,
                    j, rng, frames, runs, calls, sampled_at, creations, written,
                    run_seeds, last >>

\* start_sim, visual branch: create_cells, create_figure, and the call of
\* super().start_sim(), which shows the animation
start_sim_visual ==
    /\ pc \in {"constructed", "finished", "returned"}
    /\ runs < MaxRuns
    /\ is_visual(sim_type)
    /\ LET cc == create_cells(dimensions, rng)
       IN  cells' = cc.cells /\ rng' = cc.rng
    /\ creations' = creations + 1
    /\ calls' = 0
    /\ frames' = 0
    /\ runs' = runs + 1
    /\ pc' = "animating"
    /\ run_seeds' = Append(run_seeds, rng)
    /\ UNCHANGED << args, dimensions, timesteps, sim_type, tempurature,
                    avg_qauntities, t_idx, i, j, sampled_at, written, last >>

\* super().start_sim() of line 50 returns, between two frames: the rendering
\* loop decides when the animation ends; start_sim returns with it
SimulationPlane_start_sim_returns ==
    /\ pc = "animating"
    /\ pc' = "returned"
    /\ UNCHANGED << args, dimensions, timesteps, sim_type, tempurature, cells,
                    avg_qauntities, t_idx, i, j, rng, frames, runs, calls,
                    sampled_at, creations, written, run_seeds, last >>

\* start_sim, else branch, up to the call of start_full_sim
start_sim_full ==
    /\ pc \in {"constructed", "finished", "returned"}
    /\ runs < MaxRuns
    /\ ~ is_visual(sim_type)
    /\ tempurature' = full_schedule
    /\ creations' = 0
    /\ calls' = 0
    /\ runs' = runs + 1
    /\ pc' = "start_full_sim"
    /\ run_seeds' = Append(run_seeds, rng)
    /\ UNCHANGED << args, dimensions, timesteps, sim_type, cells, avg_qauntities,
                    t_idx, i, j, rng, frames, sampled_at, written, last >>

\* start_full_sim, lines 57-58: warning_message, the accumulator is re-created
start_full_sim ==
    /\ pc = "start_full_sim"
    /\ avg_qauntities' = << >>
    /\ sampled_at' = << >>
    /\ t_idx' = 0
    /\ pc' = "for_temp"
    /\ UNCHANGED << args, dimensions, timesteps, sim_type, tempurature, cells,
                    i, j, rng, frames, runs, calls, creations, written, run_seeds, last >>

\* for temp in self.tempurature: next temperature, create_cells
for_temp_next ==
    /\ pc = "for_temp"
    /\ t_idx < Len(tempurature)
    /\ LET cc == create_cells(dimensions, rng)
       IN  cells' = cc.cells /\ rng' = cc.rng
    /\ creations' = creations + 1
    /\ i' = 0
    /\ pc' = "for_i"
    /\ UNCHANGED << args, dimensions, timesteps, sim_type, tempurature,
                    avg_qauntities, t_idx, j, frames, runs, calls, sampled_at,
                    written, run_seeds, last >>

\* the schedule is exhausted: finished_sim hands the records to write_data
finished_sim ==
    /\ pc = "for_temp"
    /\ t_idx >= Len(tempurature)
    /\ written' = Append(written,
                         [data |-> avg_qauntities,
                          file_parameters |-> << "Glauber", dimensions, timesteps >>,
                          sim_info |-> << dimensions * dimensions, timesteps >>])
    /\ pc' = "finished"
    /\ UNCHANGED << args, dimensions, timesteps, sim_type, tempurature, cells,
                    avg_qauntities, t_idx, i, j, rng, frames, runs, calls,
                    sampled_at, creations, run_seeds, last >>

\* for i in range(self.timesteps): next sweep
for_i_next ==
    /\ pc = "for_i"
    /\ i < timesteps
    /\ j' = 0
    /\ pc' = "for_j"
    /\ UNCHANGED << args, dimensions, timesteps, sim_type, tempurature, cells,
                    avg_qauntities, t_idx, i, rng, frames, runs, calls,
                    sampled_at, creations, written, run_seeds, last >>

\* the sweeps of this temperature are done
for_i_done ==
    /\ pc = "for_i"
    /\ i >= timesteps
    /\ t_idx' = t_idx + 1
    /\ pc' = "for_temp"
    /\ UNCHANGED << args, dimensions, timesteps, sim_type, tempurature, cells,
                    avg_qauntities, i, j, rng, frames, runs, calls, sampled_at,
                    creations, written, run_seeds, last >>

\* for j in range(self.dimensions ** 2): self.glauber_procedure(temp)
for_j_attempt ==
    /\ pc = "for_j"
    /\ j < sweep_attempts(dimensions)
    /\ \E g \in {glauber_procedure(cells, dimensions, tempurature[t_idx + 1], rng)} :
           /\ cells' = g.cells /\ rng' = g.rng
           /\ last' = attempt_record(g, cells, dimensions, tempurature[t_idx + 1])
           /\ pc' = IF g.raised THEN "IndexError" ELSE pc
    /\ j' = j + 1
    /\ calls' = calls + 1
    /\ UNCHANGED << args, dimensions, timesteps, sim_type, tempurature,
                    avg_qauntities, t_idx, i, frames, runs, sampled_at,
                    creations, written, run_seeds >>

\* line 67 holds after the sweep: calculate_averages(temp)
sweep_sampled ==
    /\ pc = "for_j"
    /\ j >= sweep_attempts(dimensions)
    /\ sample_due(i)
    /\ avg_qauntities' = list_append(avg_qauntities,
            calculate_averages(cells, dimensions, tempurature[t_idx + 1]))
    /\ sampled_at' = Append(sampled_at, << t_idx, i >>)
    /\ i' = i + 1
    /\ pc' = "for_i"
    /\ UNCHANGED << args, dimensions, timesteps, sim_type, tempurature, cells,
                    t_idx, j, rng, frames, runs, calls, creations, written, run_seeds, last >>

\* line 67 fails after the sweep
sweep_not_sampled ==
    /\ pc = "for_j"
    /\ j >= sweep_attempts(dimensions)
    /\ ~ sample_due(i)
    /\ i' = i + 1
    /\ pc' = "for_i"
    /\ UNCHANGED << args, dimensions, timesteps, sim_type, tempurature, cells,
                    avg_qauntities, t_idx, j, rng, frames, runs, calls,
                    sampled_at, creations, written, run_seeds, last >>

\* a frame advance begins: anim_func(i)
anim_func_begin ==
    /\ pc = "animating"
    /\ frames < MaxFrames
    /\ j' = 0
    /\ pc' = "anim_j"
    /\ UNCHANGED << args, dimensions, timesteps, sim_type, tempurature, cells,
                    avg_qauntities, t_idx, i, rng, frames, runs, calls,
                    sampled_at, creations, written, run_seeds, last >>

\* for i in range(self.dimensions ** 2): self.glauber_procedure(self.tempurature)
anim_func_attempt ==
    /\ pc = "anim_j"
    /\ j < sweep_attempts(dimensions)
    /\ \E g \in {glauber_procedure(cells, dimensions, anim_temp, rng)} :
           /\ cells' = g.cells /\ rng' = g.rng
           /\ last' = attempt_record(g, cells, dimensions, anim_temp)
           /\ pc' = IF g.raised THEN "IndexError" ELSE pc
    /\ j' = j + 1
    /\ calls' = calls + 1
    /\ UNCHANGED << args, dimensions, timesteps, sim_type, tempurature,
                    avg_qauntities, t_idx, i, frames, runs, sampled_at,
                    creations, written, run_seeds >>

\* im.set_array(self.cells), check_sim(), yield self.im
anim_func_end ==
    /\ pc = "anim_j"
    /\ j >= sweep_attempts(dimensions)
    /\ LET cs == SimulationPlane_check_sim(avg_qauntities, written, dimensions, timesteps)
       IN  avg_qauntities' = cs.avg_qauntities /\ written' = cs.written
    /\ frames' = frames + 1
    /\ pc' = "animating"
    /\ UNCHANGED << args, dimensions, timesteps, sim_type, tempurature, cells,
                    t_idx, i, j, rng, runs, calls, sampled_at,
                    creations, run_seeds, last >>

Next ==
    \/ SimulationPlane_init_returns
    \/ SimulationPlane_init_raises
    \/ Glauber_init
    \/ start_sim_visual
    \/ SimulationPlane_start_sim_returns
    \/ start_sim_full
    \/ start_full_sim
    \/ for_temp_next
    \/ finished_sim
    \/ for_i_next
    \/ for_i_done
    \/ for_j_attempt
    \/ sweep_sampled
    \/ sweep_not_sampled
    \/ anim_func_begin
    \/ anim_func_attempt
    \/ anim_func_end

Spec == Init /\ [][Next]_vars

SpecSchedule == InitSchedule /\ [][Next]_vars

\* runs that sample, repeated on one object with the generator seeded anew
ArgsSeeded ==
    [dimensions : 0..MaxN, timesteps : {101}, sim_type : {STR_full, STR_visual},
     tempurature : {45}]

InitSeeded == InitWith(ArgsSeeded, {1})

\* np.random.seed(k) by the caller, whenever no start_sim is executing:
\* before the first run and after a full run or an animation has returned
np_random_seed ==
    /\ pc \in {"constructed", "finished", "returned"}
    /\ runs < MaxRuns
    /\ \E k \in 1..MaxSeed : rng' = k
    /\ UNCHANGED << args, pc, dimensions, timesteps, sim_type, tempurature, cells,
                    avg_qauntities, t_idx, i, j, frames, runs, calls,
                    sampled_at, creations, written, run_seeds, last >>

NextSeeded == Next \/ np_random_seed

SpecSeeded == InitSeeded /\ [][NextSeeded]_vars

\* the statements of start_full_sim: execution is synchronous and single
\* threaded, so a started run keeps executing its next statement
RunStep ==
    \/ start_full_sim
    \/ for_temp_next
    \/ finished_sim
    \/ for_i_next
    \/ for_i_done
    \/ for_j_attempt
    \/ sweep_sampled
    \/ sweep_not_sampled

SpecFair == InitFair /\ [][Next]_vars /\ WF_vars(RunStep)

(***************************************************************************)
(* Properties.                                                             *)
(***************************************************************************)
InFullRun == pc \in {"for_temp", "for_i", "for_j", "finished"}

\* the sweep indices sampled in temperature block t
SampledIn(t) == { sampled_at[k][2] : k \in { m \in DOMAIN sampled_at : sampled_at[m][1] = t } }

\* the number of records of temperature block t
RecordsIn(t) == Cardinality({ m \in DOMAIN sampled_at : sampled_at[m][1] = t })

\* the update attempts of sweep i of the current block have all been made
SweepComplete == pc = "for_j" /\ j = dimensions * dimensions

\* C1: in a full run a record is appended exactly when sweep i has made its
\* N*N update attempts and i >= 99 and i mod 10 = 0; the accumulator grows
\* by one record there and at no other step.
C1_SampleIff ==
    [][ /\ (Len(avg_qauntities') > Len(avg_qauntities))
            => /\ SweepComplete
               /\ i >= 99 /\ i % 10 = 0
               /\ Len(avg_qauntities') = Len(avg_qauntities) + 1
               /\ i' = i + 1 /\ t_idx' = t_idx /\ cells' = cells
        /\ (SweepComplete /\ pc' # pc)
            => ((Len(avg_qauntities') = Len(avg_qauntities) + 1)
                    <=> (i >= 99 /\ i % 10 = 0))
      ]_vars

C1_Witness ==
    /\ pc = "for_i" /\ i = 101 /\ dimensions = 2
    /\ Len(sampled_at) > 0
    /\ sampled_at[Len(sampled_at)] = << t_idx, 100 >>
    /\ Len(avg_qauntities) = Len(sampled_at)

\* C2 as stated: with timesteps = 150 every temperature block is sampled at
\* the sweep indices 99, 109, ..., 149, six records per temperature.
C2_Original ==
    (timesteps = 150 /\ pc = "for_i" /\ i = timesteps)
        => /\ SampledIn(t_idx) = {99, 109, 119, 129, 139, 149}
           /\ RecordsIn(t_idx) = 6

\* C2 amended: with timesteps = 150 every temperature block is sampled at
\* exactly the sweep indices 100, 110, 120, 130, 140: five records per
\* temperature, 100 records in the run.
C2_Samples150 ==
    /\ (timesteps = 150 /\ pc = "for_i" /\ i = timesteps)
        => /\ SampledIn(t_idx) = {100, 110, 120, 130, 140}
           /\ RecordsIn(t_idx) = 5
           /\ Len(avg_qauntities) = 5 * (t_idx + 1)
    /\ (timesteps = 150 /\ pc = "finished")
        => /\ Len(avg_qauntities) = 100
           /\ \A t \in 0..19 : SampledIn(t) = {100, 110, 120, 130, 140}

C2_Witness ==
    /\ timesteps = 150 /\ pc = "finished" /\ dimensions = 2
    /\ Len(avg_qauntities) = 100

\* C3 as stated: with timesteps = 100 every temperature block contributes
\* exactly one record, taken at sweep 99.
C3_Original ==
    (timesteps = 100 /\ pc = "for_i" /\ i = timesteps)
        => /\ RecordsIn(t_idx) = 1
           /\ SampledIn(t_idx) = {99}

\* C3 amended: with timesteps = 100 no record is ever appended (the last
\* sweep, 99, is not a multiple of 10); the first sampled sweep is 100, so
\* timesteps = 101 gives exactly one record per temperature block.
C3_Samples100 ==
    /\ (timesteps = 100 /\ InFullRun) => avg_qauntities = << >>
    /\ (timesteps = 100 /\ pc = "finished")
        => written[Len(written)].data = << >>
    /\ (timesteps = 101 /\ pc = "for_i" /\ i = timesteps)
        => /\ RecordsIn(t_idx) = 1
           /\ SampledIn(t_idx) = {100}

C3_Witness ==
    /\ timesteps = 100 /\ dimensions = 2 /\ pc = "finished"
    /\ calls = 20 * 100 * 4
    /\ written[Len(written)].data = << >>

\* C4: with 0 < timesteps < 100 a full run makes every sweep of every
\* temperature, no update attempt raises, every loop head and sweep end has
\* a next statement of start_full_sim to execute until finished_sim, and
\* an empty sequence is handed to write_data.
C4_ShortRunEmpty ==
    (timesteps > 0 /\ timesteps < 100)
        => /\ pc # "IndexError"
           /\ (pc \in {"start_full_sim", "for_temp", "for_i"} \/ SweepComplete)
                => ENABLED RunStep
           /\ InFullRun => avg_qauntities = << >>
           /\ pc = "finished"
                => /\ written[Len(written)].data = << >>
                   /\ t_idx = 20
                   /\ calls = 20 * timesteps * dimensions * dimensions
                   /\ creations = 20

C4_Witness ==
    /\ timesteps = 99 /\ dimensions = 2 /\ pc = "finished"
    /\ Len(written) = 1
    /\ written[1].data = << >>

\* C5: once the lattice exists it is an N x N grid whose cells are all +1
\* or -1, in full and in visual mode, after any number of update attempts.
C5_SpinsOnly ==
    (cells # NoCells)
        => /\ Len(cells) = dimensions
           /\ \A r \in 1..dimensions :
                /\ Len(cells[r]) = dimensions
                /\ \A c \in 1..dimensions : cells[r][c] = 1 \/ cells[r][c] = -1

C5_Witness ==
    /\ dimensions = 2 /\ calls >= 4
    /\ cells # NoCells
    /\ \E r \in 1..2, c \in 1..2 : cells[r][c] = 1
    /\ \E r \in 1..2, c \in 1..2 : cells[r][c] = -1

\* C6: every completed sweep, in a full run and in a frame advance, has
\* made exactly N*N calls of glauber_procedure: the number of calls is N*N
\* per completed sweep plus the attempts of the sweep in progress, and a
\* sweep ends only after its N*N-th attempt.
C6_SweepCardinality ==
    /\ [] /\ pc = "for_i" => calls = dimensions * dimensions * (t_idx * timesteps + i)
          /\ pc = "for_j" => /\ calls = dimensions * dimensions * (t_idx * timesteps + i) + j
                             /\ j <= dimensions * dimensions
          /\ pc = "animating" => calls = dimensions * dimensions * frames
          /\ pc = "anim_j" => /\ calls = dimensions * dimensions * frames + j
                              /\ j <= dimensions * dimensions
    /\ [][ /\ (pc = "for_j" /\ pc' = "for_i") => j = dimensions * dimensions
           /\ (pc = "anim_j" /\ pc' = "animating") => j = dimensions * dimensions
           /\ (calls' # calls /\ pc' = pc) => (calls' = calls + 1 /\ j' = j + 1)
         ]_vars

C6_Witness ==
    /\ pc = "for_i" /\ dimensions = 2 /\ t_idx = 3 /\ i = 2
    /\ calls = 4 * (3 * timesteps + 2)

C6_WitnessVisual ==
    pc = "animating" /\ dimensions = 2 /\ frames = 2 /\ calls = 8

\* the records are in temperature-then-sweep order
RecordsOrdered ==
    /\ Len(sampled_at) = Len(avg_qauntities)
    /\ \A k \in 1..(Len(avg_qauntities) - 1) :
          \/ avg_qauntities[k][1] < avg_qauntities[k + 1][1]
          \/ /\ avg_qauntities[k][1] = avg_qauntities[k + 1][1]
             /\ sampled_at[k][1] = sampled_at[k + 1][1]
             /\ sampled_at[k][2] < sampled_at[k + 1][2]

\* C7: the accumulator is empty when a full run starts, whatever an earlier
\* run left in it; during the run it only grows at its end, one record at a
\* time; and its records are always in temperature-then-sweep order.
C7_AppendOnlyOrdered ==
    /\ [] (InFullRun => RecordsOrdered)
    /\ [][ /\ (pc = "start_full_sim") => avg_qauntities' = << >>
           /\ (InFullRun /\ avg_qauntities' # avg_qauntities)
                => /\ Len(avg_qauntities') = Len(avg_qauntities) + 1
                   /\ SubSeq(avg_qauntities', 1, Len(avg_qauntities)) = avg_qauntities
         ]_vars

\* a second run on the same object, after its first sample, whose first run left records
C7_Witness ==
    /\ runs = 2 /\ pc = "for_i"
    /\ Len(written) = 1 /\ Len(written[1].data) > 0
    /\ Len(avg_qauntities) = 1

\* C8: with dimensions <= 0 or timesteps <= 0 the constructor fails with
\* InvalidParameter: no field is set, no lattice is created, nothing runs.
C8_InvalidParameter ==
    /\ [] ((args.dimensions <= 0 \/ args.timesteps <= 0)
            => /\ pc \in {"new", "InvalidParameter"}
               /\ cells = NoCells
               /\ runs = 0 /\ calls = 0 /\ creations = 0 /\ frames = 0
               /\ written = << >>)
    /\ [][ (pc = "new" /\ (args.dimensions <= 0 \/ args.timesteps <= 0))
                => pc' = "InvalidParameter" ]_vars

C8_Witness ==
    pc = "InvalidParameter" /\ args.dimensions > 0 /\ args.timesteps = 0

\* C9: in a full run self.tempurature is the schedule 1.0, 1.1, ..., 2.9
\* (20 values, ascending, without 3.0) whatever was given to the
\* constructor; the blocks are run in that order, one lattice creation
\* each, and every record carries the temperature of its block.
C9_Schedule ==
    /\ [] (InFullRun =>
            /\ tempurature = << 10, 11, 12, 13, 14, 15, 16, 17, 18, 19,
                                20, 21, 22, 23, 24, 25, 26, 27, 28, 29 >>
            /\ t_idx \in 0..20
            /\ pc \in {"for_i", "for_j"} => (t_idx < 20 /\ creations = t_idx + 1)
            /\ pc = "finished" => (t_idx = 20 /\ creations = 20)
            /\ \A k \in DOMAIN avg_qauntities :
                  avg_qauntities[k][1] = 10 + sampled_at[k][1])
    /\ [][ InFullRun => (t_idx' = t_idx \/ t_idx' = t_idx + 1 \/ pc' = "start_full_sim") ]_vars

C9_Witness ==
    /\ pc = "finished" /\ args.tempurature = 45
    /\ Len(avg_qauntities) = 20
    /\ avg_qauntities[1][1] = 10 /\ avg_qauntities[20][1] = 29

\* s and t are equal up to the case of their letters
EqIgnoreCase(s, t) ==
    /\ Len(s) = Len(t)
    /\ \A k \in 1..Len(s) :
          \/ s[k] = t[k]
          \/ \E m \in 65..90 : {s[k], t[k]} = {m, m + 32}

\* C10: start_sim starts the visual mode, with the temperature of the
\* constructor, iff sim_type is "visual" up to case; any other string
\* starts the full run; no sim_type makes start_sim fail.
C10_Dispatch ==
    /\ [] /\ pc \in {"animating", "anim_j", "returned"}
              => (EqIgnoreCase(sim_type, STR_visual) /\ tempurature = args.tempurature)
          /\ pc \in {"start_full_sim", "for_temp", "for_i", "for_j", "finished"}
              => ~ EqIgnoreCase(sim_type, STR_visual)
          /\ (pc \in {"constructed", "finished", "returned"} /\ runs < MaxRuns)
                => ENABLED (start_sim_visual \/ start_sim_full)
    /\ [][ (pc \in {"constructed", "finished", "returned"} /\ pc' # pc)
              => IF EqIgnoreCase(sim_type, << 118, 105, 115, 117, 97, 108 >>)
                 THEN pc' = "animating" /\ tempurature' = tempurature
                 ELSE pc' = "start_full_sim" ]_vars

C10_Witness ==
    /\ pc = "for_j" /\ sim_type = << 98, 111, 103, 117, 115 >> /\ calls > 0

C10_WitnessVisual ==
    /\ pc = "animating" /\ sim_type = << 86, 73, 83, 85, 65, 76 >> /\ frames > 0

\* C11: a started full run reaches finished_sim; finished_sim is called once
\* per run, only when all 20 temperatures have made all their sweeps, that
\* is after 20 * timesteps * N*N update attempts and 20 lattice creations.
C11_Terminates ==
    /\ [] /\ Len(written) <= runs
          /\ (InFullRun /\ pc # "finished") => Len(written) = runs - 1
          /\ pc = "finished"
                => /\ Len(written) = runs
                   /\ t_idx = 20
                   /\ calls = 20 * timesteps * dimensions * dimensions
                   /\ creations = 20
    /\ [][ (written' # written)
              => /\ Len(written') = Len(written) + 1
                 /\ pc = "for_temp" /\ pc' = "finished"
                 /\ t_idx = 20 /\ i = timesteps
                 /\ calls = 20 * timesteps * dimensions * dimensions ]_vars
    /\ (pc = "start_full_sim") ~> (pc = "finished")

C11_Witness ==
    /\ pc = "finished" /\ runs = 1 /\ Len(written) = 1
    /\ dimensions = 2 /\ timesteps = 2 /\ calls = 160

\* C12: two full runs of the object that start from the same state of the
\* generator, hence receive the same draws, produce the same records; what
\* the earlier run left in the object (lattice, accumulator, schedule) has
\* no influence.  A run in progress agrees with the records of a completed
\* run of the same seed as far as it has got.
C12_Deterministic ==
    /\ \A a, b \in 1..Len(written) :
          run_seeds[a] = run_seeds[b] => written[a].data = written[b].data
    /\ (pc \in {"for_temp", "for_i", "for_j"})
          => \A a \in 1..Len(written) :
                run_seeds[a] = run_seeds[runs]
                    => avg_qauntities = SubSeq(written[a].data, 1, Len(avg_qauntities))

C12_Witness ==
    /\ Len(written) = 2 /\ dimensions = 2
    /\ run_seeds[1] = run_seeds[2]
    /\ Len(written[1].data) = 20
    /\ written[1].data = written[2].data

\* runs with different draws produce different records
C12_WitnessOtherSeed ==
    /\ Len(written) = 2 /\ dimensions = 2
    /\ run_seeds[1] # run_seeds[2]
    /\ written[1].data # written[2].data

\* the lattice that N*N draws from state s of the generator give
FreshLattice(N, s) ==
    [r \in 1..N |-> [c \in 1..N |->
        IF np_random_stream(s, N * N)[(r - 1) * N + c] % 2 = 0 THEN 1 ELSE -1]]

\* C13: in a full run the lattice is created once per temperature, at the
\* head of the block before any attempt of that temperature, from fresh
\* draws only; the sweep index restarts at 0; nothing re-creates the lattice
\* inside a block, and no sweep below 99 of any block is sampled.
C13_FreshPerTemperature ==
    /\ [] /\ pc \in {"for_i", "for_j"} => (creations = t_idx + 1 /\ i \in 0..timesteps)
          /\ InFullRun => \A k \in DOMAIN sampled_at : sampled_at[k][2] >= 99
    /\ [][ /\ (pc = "for_temp" /\ pc' = "for_i")
                => /\ i' = 0
                   /\ creations' = creations + 1
                   /\ calls = dimensions * dimensions * timesteps * t_idx
                   /\ calls' = calls
                   /\ cells' = FreshLattice(dimensions, rng)
           /\ (pc \in {"for_i", "for_j"})
                => /\ creations' = creations
                   /\ t_idx' = t_idx \/ (pc' = "for_temp" /\ i = timesteps)
                   /\ i' = i \/ (i' = i + 1 /\ pc = "for_j")
         ]_vars

\* the second temperature block begins: a new lattice after the sweeps of the first
C13_Witness ==
    /\ pc = "for_i" /\ i = 0 /\ t_idx = 1 /\ creations = 2
    /\ dimensions = 2 /\ timesteps = 2 /\ calls = 8
    /\ cells # last.before

\* C14: a glauber_procedure call negates exactly the chosen cell when the
\* flip is accepted and leaves the lattice as it was when it is rejected;
\* the steps that sample or log leave the lattice unchanged.
C14_OneCell ==
    /\ [] ((pc \in {"for_j", "anim_j"} /\ j > 0)
            => \A r \in 1..dimensions, c \in 1..dimensions :
                  cells[r][c] = IF last.outcome /\ r = last.row + 1 /\ c = last.col + 1
                                THEN 0 - last.before[r][c]
                                ELSE last.before[r][c])
    /\ [][ /\ (calls' = calls + 1) => last'.before = cells
           /\ (cells' # cells) => (calls' = calls + 1 \/ creations' # creations)
           /\ (avg_qauntities' # avg_qauntities) => cells' = cells
           /\ (pc = "for_i" /\ pc' = "for_j") => cells' = cells
         ]_vars

\* an accepted flip
C14_Witness ==
    /\ pc = "for_j" /\ j > 0 /\ dimensions = 2
    /\ last.outcome
    /\ cells # last.before
    /\ cells[last.row + 1][last.col + 1] = 0 - last.before[last.row + 1][last.col + 1]

\* a rejected flip
C14_WitnessRejected ==
    /\ pc = "for_j" /\ j > 0 /\ dimensions = 2
    /\ ~ last.outcome
    /\ cells = last.before

\* C15: in visual mode every attempt of every frame advance is made at the
\* temperature given to the constructor, self.tempurature never changes,
\* no record exists and write_data is never called: not by a frame advance,
\* not when the animation returns, not by a later start of the animation.
C15_VisualFixedTemperature ==
    /\ [] ((pc \in {"animating", "anim_j", "returned"})
            => /\ tempurature = args.tempurature
               /\ calls > 0 => last.temp = args.tempurature
               /\ avg_qauntities = << >>
               /\ sampled_at = << >>
               /\ written = << >>)
    /\ [][ (pc \in {"animating", "anim_j", "returned"})
              => /\ tempurature' = tempurature
                 /\ avg_qauntities' = avg_qauntities
                 /\ written' = written
                 /\ pc' \in {"animating", "anim_j", "returned"} ]_vars
    /\ [][ (pc = "anim_j" /\ pc' # pc) => (pc' = "animating" /\ frames' = frames + 1) ]_vars

C15_Witness ==
    /\ pc = "animating" /\ runs = 2 /\ frames = 2 /\ dimensions = 2
    /\ args.tempurature = 45 /\ last.temp = 45
    /\ calls = 8

\* C16: every attempt chooses a row and a column of 0..N-1 and reads its
\* four neighbours at sites of the lattice; no attempt raises IndexError.
C16_IndicesInLattice ==
    /\ pc # "IndexError"
    /\ (calls > 0)
          => /\ last.row \in 0..(dimensions - 1)
             /\ last.col \in 0..(dimensions - 1)
             /\ Len(last.sites) = 4
             /\ \A k \in 1..4 :
                   /\ last.sites[k][1] \in 0..(dimensions - 1)
                   /\ last.sites[k][2] \in 0..(dimensions - 1)

\* row 0 and column N-1 of a 2 x 2 lattice: both wraps happen
C16_Witness ==
    /\ dimensions = 2 /\ calls > 0
    /\ last.row = 0 /\ last.col = 1
    /\ last.sites = << << 1, 1 >>, << 1, 1 >>, << 0, 0 >>, << 0, 0 >> >>

C16_WitnessN1 ==
    /\ dimensions = 1 /\ calls > 0
    /\ last.sites = << << 0, 0 >>, << 0, 0 >>, << 0, 0 >>, << 0, 0 >> >>

====
